---- MODULE Spec2Model ----
(***************************************************************************)
(* Model of blender_render_fpn.py: the FPN decoder (parse_fpn), the scene  *)
(* construction (clear_scene, create_simple_mannequin, pose_mannequin,     *)
(* setup_scene), render_scene and the end-to-end run (main).               *)
(*                                                                         *)
(* Representation of Python values:                                        *)
(*  - a str is a sequence of one-character strings;                        *)
(*  - a result that may raise is a record [err, val]: err = "" on normal   *)
(*    return, otherwise the exception's class name and val = None;         *)
(*  - reals produced by a division by 100.0 are held in hundredths, those  *)
(*    produced by a division by 10.0 in tenths (stated at each field);     *)
(*  - an angle is [milli, deg]: milli/1000 radians + deg * pi/180 radians; *)
(*  - lengths are held in hundredths of a Blender unit;                    *)
(*  - a colour channel is an exact rational (RatFrac).                      *)
(***************************************************************************)
EXTENDS Integers, Sequences, FiniteSets, TLC

VARIABLES sys_argv, pc, fpn_string, output_path, state, exc,
          objects, materials, scene, calls

vars == <<sys_argv, pc, fpn_string, output_path, state, exc,
          objects, materials, scene, calls>>

\* ------------------------------------------------------------------ bounds
\* Field counts at each grammar level range over expected +/- FieldSlack.
FieldSlack == 1
\* Limb strings of every length 0..MaxLimbs over LimbChars are enumerated.
MaxLimbs == 2

\* ------------------------------------------------------- Python primitives
\* Python's None: a value unlike every record the model builds.
None == [none |-> TRUE]
Return(v) == [err |-> "", val |-> v]
Raise(e) == [err |-> e, val |-> None]

Whitespace == {" "}
Digits == {"0", "1", "2", "3", "4", "5", "6", "7", "8", "9"}

DigitVal(c) ==
  CASE c = "0" -> 0 [] c = "1" -> 1 [] c = "2" -> 2 [] c = "3" -> 3
    [] c = "4" -> 4 [] c = "5" -> 5 [] c = "6" -> 6 [] c = "7" -> 7
    [] c = "8" -> 8 [] c = "9" -> 9

\* str.strip(): drop leading and trailing whitespace.
RECURSIVE lstrip(_)
lstrip(s) ==
  IF s # <<>> /\ Head(s) \in Whitespace THEN lstrip(Tail(s)) ELSE s

RECURSIVE rstrip(_)
rstrip(s) ==
  IF s # <<>> /\ s[Len(s)] \in Whitespace
  THEN rstrip(SubSeq(s, 1, Len(s) - 1)) ELSE s

strip(s) == rstrip(lstrip(s))

\* str.split(d): the pieces between the occurrences of d; n occurrences give
\* n + 1 pieces, and the empty string gives one empty piece.
RECURSIVE split(_, _)
split(s, d) ==
  IF \A i \in 1..Len(s) : s[i] # d
  THEN <<s>>
  ELSE LET i == CHOOSE k \in 1..Len(s) :
                  s[k] = d /\ \A j \in 1..(k - 1) : s[j] # d
       IN  <<SubSeq(s, 1, i - 1)>> \o split(SubSeq(s, i + 1, Len(s)), d)

\* The digits part of an int literal: digits, single underscores allowed
\* between two digits only.
DigitsOk(s) ==
  /\ s # <<>>
  /\ \A i \in 1..Len(s) : s[i] \in Digits \cup {"_"}
  /\ s[1] # "_" /\ s[Len(s)] # "_"
  /\ \A i \in 1..(Len(s) - 1) : ~(s[i] = "_" /\ s[i + 1] = "_")

RECURSIVE DigitsValue(_, _)
DigitsValue(s, acc) ==
  IF s = <<>> THEN acc
  ELSE IF Head(s) = "_" THEN DigitsValue(Tail(s), acc)
  ELSE DigitsValue(Tail(s), 10 * acc + DigitVal(Head(s)))

\* int(str): surrounding whitespace is ignored, one optional sign, then the
\* digits part; anything else raises ValueError.
int(tok) ==
  LET t == strip(tok)
      signed == t # <<>> /\ Head(t) \in {"+", "-"}
      body == IF signed THEN Tail(t) ELSE t
  IN  IF ~DigitsOk(body) THEN Raise("ValueError")
      ELSE IF signed /\ Head(t) = "-"
           THEN Return(0 - DigitsValue(body, 0))
           ELSE Return(DigitsValue(body, 0))

\* seq[i] with Python's 0-based index i: IndexError past the end.
Item(seq, i) ==
  IF i + 1 <= Len(seq) THEN Return(seq[i + 1]) ELSE Raise("IndexError")

\* int(seq[i]): the subscript is evaluated first, then the conversion.
IntItem(seq, i) ==
  IF Item(seq, i).err # "" THEN Item(seq, i) ELSE int(Item(seq, i).val)

\* The first exception among evaluations made in order, "" when none raises.
FirstErr(evals) ==
  IF \A i \in 1..Len(evals) : evals[i].err = "" THEN ""
  ELSE evals[CHOOSE i \in 1..Len(evals) :
               evals[i].err # "" /\ \A j \in 1..(i - 1) : evals[j].err = ""].err

\* ---------------------------------------------------------------- parse_fpn
\* bio[3] == '1'
recovering_mut(tok) == int(tok).err = "" /\ int(tok).val = 1
recovering(tok) == tok = <<"1">>

\* balance, fatigue, damage, weight: hundredths; linear: tenths.
parse_fighter(fpn_fighter) ==
  LET parts == split(fpn_fighter, ".") IN
  IF Len(parts) # 7 THEN Raise("ValueError")
  ELSE
    LET mom == split(parts[5], ",")
        bio == split(parts[6], ",")
        balance == IntItem(parts, 1)
        fatigue == IntItem(parts, 2)
        damage == IntItem(parts, 3)
        linear == IntItem(mom, 0)
        rotational == IntItem(mom, 1)
        hip_rot == IntItem(bio, 0)
        torso_rot == IntItem(bio, 1)
        weight == IntItem(bio, 2)
        flag == Item(bio, 3)
        frames == IntItem(bio, 4)
        e == FirstErr(<<balance, fatigue, damage, linear, rotational,
                        hip_rot, torso_rot, weight, flag, frames>>)
    IN  IF e # "" THEN Raise(e)
        ELSE Return([stance |-> parts[1],
                     balance |-> balance.val,
                     fatigue |-> fatigue.val,
                     damage |-> damage.val,
                     momentum |-> [linear |-> linear.val,
                                   rotational |-> rotational.val],
                     biomech |-> [hip_rot |-> hip_rot.val,
                                  torso_rot |-> torso_rot.val,
                                  weight |-> weight.val,
                                  recovering |-> recovering(flag.val),
                                  frames |-> frames.val],
                     limbs |-> parts[7]])

parse_fpn(s) ==
  LET parts == split(strip(s), "/") IN
  IF Len(parts) # 5 THEN Raise("ValueError")
  ELSE
    LET fighter_a == parse_fighter(parts[1])
        fighter_b == parse_fighter(parts[2])
        move_count == IntItem(parts, 4)
        e == FirstErr(<<fighter_a, fighter_b, move_count>>)
    IN  IF e # "" THEN Raise(e)
        ELSE Return([fighter_a |-> fighter_a.val,
                     fighter_b |-> fighter_b.val,
                     distance |-> parts[3],
                     turn |-> parts[4],
                     move_count |-> move_count.val])

\* ------------------------------------------------------- exact rationals
\* A rational is its sign and the exponents of its prime factorisation
\* (negative exponents for the denominator), so products never overflow.
Abs(n) == IF n < 0 THEN 0 - n ELSE n

PrimesOf(n) ==
  {p \in 2..n : n % p = 0 /\ \A q \in 2..(p - 1) : p % q # 0}

RECURSIVE Multiplicity(_, _)
Multiplicity(n, p) ==
  IF n % p = 0 THEN 1 + Multiplicity(n \div p, p) ELSE 0

RatZero == [sign |-> 0, exp |-> <<>>]

Exp(r, p) == IF p \in DOMAIN r.exp THEN r.exp[p] ELSE 0

\* n / d, for d > 0
RatFrac(n, d) ==
  IF n = 0 THEN RatZero
  ELSE LET e(p) == Multiplicity(Abs(n), p) - Multiplicity(d, p)
           keep == {p \in PrimesOf(Abs(n)) \cup PrimesOf(d) : e(p) # 0}
       IN  [sign |-> IF n < 0 THEN 0 - 1 ELSE 1,
            exp |-> [p \in keep |-> e(p)]]

RatMul(a, b) ==
  IF a.sign = 0 \/ b.sign = 0 THEN RatZero
  ELSE LET e(p) == Exp(a, p) + Exp(b, p)
           keep == {p \in DOMAIN a.exp \cup DOMAIN b.exp : e(p) # 0}
       IN  [sign |-> a.sign * b.sign, exp |-> [p \in keep |-> e(p)]]

\* ------------------------------------------------------------------ angles
Rad(milli) == [milli |-> milli, deg |-> 0]
Deg(d) == [milli |-> 0, deg |-> d]
\* math.radians(d): d degrees
radians(d) == Deg(d)

\* ------------------------------------------------------------- object names
FighterA == <<"F", "i", "g", "h", "t", "e", "r", "A">>
FighterB == <<"F", "i", "g", "h", "t", "e", "r", "B">>
left == <<"l", "e", "f", "t">>
right == <<"r", "i", "g", "h", "t">>
us == <<"_">>
s_head == <<"h", "e", "a", "d">>
s_torso == <<"t", "o", "r", "s", "o">>
s_hips == <<"h", "i", "p", "s">>
s_upper_arm == <<"u", "p", "p", "e", "r", "_", "a", "r", "m">>
s_lower_arm == <<"l", "o", "w", "e", "r", "_", "a", "r", "m">>
s_hand == <<"h", "a", "n", "d">>
s_upper_leg == <<"u", "p", "p", "e", "r", "_", "l", "e", "g">>
s_lower_leg == <<"l", "o", "w", "e", "r", "_", "l", "e", "g">>
s_foot == <<"f", "o", "o", "t">>
s_material == <<"m", "a", "t", "e", "r", "i", "a", "l">>
Ground == <<"G", "r", "o", "u", "n", "d">>
GroundMaterial == Ground \o <<"M">> \o Tail(s_material)
Sun == <<"S", "u", "n">>
Area == <<"A", "r", "e", "a">>
Camera == <<"C", "a", "m", "e", "r", "a">>
Cube == <<"C", "u", "b", "e">>
Light == <<"L", "i", "g", "h", "t">>
Material == <<"M">> \o Tail(s_material)

\* f"{name}_{part}" and f"{name}_{side}_{part}"
PartName(name, part) == name \o us \o part
SideName(name, side, part) == name \o us \o side \o us \o part

\* str.startswith
startswith(s, prefix) ==
  Len(s) >= Len(prefix) /\ SubSeq(s, 1, Len(prefix)) = prefix

\* ------------------------------------------------------------ scene objects
Vec(x, y, z) == <<x, y, z>>
ZeroRot == <<Rad(0), Rad(0), Rad(0)>>
UnitScale == Vec(100, 100, 100)

Obj(name, type, parent, location, scale, data) ==
  [name |-> name, type |-> type, parent |-> parent, location |-> location,
   scale |-> scale, rotation_euler |-> ZeroRot, data |-> data]

\* A mesh primitive added at `location`, renamed, parented and given `mat`.
Mesh(name, prim, parent, location, scale, mat) ==
  Obj(name, "MESH", parent, location, scale,
      [prim |-> prim, materials |-> <<mat>>])

Color(r, g, b, a) == <<r, g, b, a>>
Red == Color(RatFrac(1, 1), RatFrac(3, 10), RatFrac(3, 10), RatFrac(1, 1))
Blue == Color(RatFrac(3, 10), RatFrac(3, 10), RatFrac(1, 1), RatFrac(1, 1))
Grey == Color(RatFrac(3, 10), RatFrac(3, 10), RatFrac(3, 10), RatFrac(1, 1))
DefaultGrey ==
  Color(RatFrac(8, 10), RatFrac(8, 10), RatFrac(8, 10), RatFrac(1, 1))

\* bpy.data.objects.get(name): the position of the object, 0 for None.
Get(objs, name) ==
  IF \E i \in 1..Len(objs) : objs[i].name = name
  THEN CHOOSE i \in 1..Len(objs) : objs[i].name = name
  ELSE 0

MatIndex(mats, name) == CHOOSE i \in 1..Len(mats) : mats[i].name = name

\* The factory scene Blender starts with.
DefaultObjects ==
  << Mesh(Cube, "cube", None, Vec(0, 0, 0), UnitScale, Material),
     Obj(Light, "LIGHT", None, Vec(408, 101, 590), UnitScale,
         [type |-> "POINT", energy |-> 1000]),
     Obj(Camera, "CAMERA", None, Vec(736, -693, 496), UnitScale,
         [kind |-> "PERSP"]) >>

DefaultMaterials == << [name |-> Material, color |-> DefaultGrey] >>

DefaultScene ==
  [camera |-> Camera, engine |-> "BLENDER_EEVEE", samples |-> 64,
   resolution_x |-> 1920, resolution_y |-> 1080,
   filepath |-> <<"/", "t", "m", "p", "/">>, rendered |-> <<>>]

\* clear_scene: select every object and delete the selection.
clear_scene(objs) == SelectSeq(objs, LAMBDA o : FALSE)

ArmParts(name, side, sign) ==
  << Mesh(SideName(name, side, s_upper_arm), "cylinder", name,
          Vec(sign * 35, 0, 300), UnitScale, PartName(name, s_material)),
     Mesh(SideName(name, side, s_lower_arm), "cylinder", name,
          Vec(sign * 35, 0, 260), UnitScale, PartName(name, s_material)),
     Mesh(SideName(name, side, s_hand), "uv_sphere", name,
          Vec(sign * 35, 0, 240), UnitScale, PartName(name, s_material)) >>

LegParts(name, side, sign) ==
  << Mesh(SideName(name, side, s_upper_leg), "cylinder", name,
          Vec(sign * 15, 0, 185), UnitScale, PartName(name, s_material)),
     Mesh(SideName(name, side, s_lower_leg), "cylinder", name,
          Vec(sign * 15, 0, 125), UnitScale, PartName(name, s_material)),
     Mesh(SideName(name, side, s_foot), "cube", name,
          Vec(sign * 15, 8, 5), Vec(12, 25, 10),
          PartName(name, s_material)) >>

\* create_simple_mannequin: the root empty, one material, 15 mesh parts
\* that all carry that one material.
create_simple_mannequin(sc, name, color) ==
  [objects |->
     sc.objects
       \o << Obj(name, "EMPTY", None, Vec(0, 0, 0), UnitScale,
                 [empty_display_type |-> "PLAIN_AXES"]),
             Mesh(PartName(name, s_head), "uv_sphere", name,
                  Vec(0, 0, 360), UnitScale, PartName(name, s_material)),
             Mesh(PartName(name, s_torso), "cube", name,
                  Vec(0, 0, 290), Vec(50, 30, 80),
                  PartName(name, s_material)),
             Mesh(PartName(name, s_hips), "cube", name,
                  Vec(0, 0, 235), Vec(45, 30, 30),
                  PartName(name, s_material)) >>
       \o ArmParts(name, left, 0 - 1) \o ArmParts(name, right, 1)
       \o LegParts(name, left, 0 - 1) \o LegParts(name, right, 1),
   materials |->
     Append(sc.materials,
            [name |-> PartName(name, s_material), color |-> color])]

\* ----------------------------------------------------------- pose_mannequin
\* obj.rotation_euler[axis] = v, skipped when the lookup gave None (i = 0).
SetRot(objs, i, axis, v) ==
  IF i = 0 THEN objs ELSE [objs EXCEPT ![i].rotation_euler[axis + 1] = v]

extended_mut(c) == c = "E"

\* limbs[index] in ['E', 'B']
extended(c) == c \in {"E", "B"}

\* math.pi / 3 if extended else math.pi / 6, negated for the right arm
arm_angle(c, sign) == IF extended(c) THEN Deg(sign * 60) ELSE Deg(sign * 30)

\* lean = (1 - balance) * 0.2 radians; balance is in hundredths, so the lean
\* is (100 - balance) * 2 thousandths of a radian.
lean(balance) == Rad((100 - balance) * 2)

\* factor = 1 - (damage * 0.5); damage is in hundredths.
factor(damage) == RatFrac(200 - damage, 200)

tinted_mut(obj, name) == obj.type = "MESH" /\ obj.data.materials # <<>>

\* obj.name.startswith(name) and obj.type == 'MESH', then obj.data.materials
tinted(obj, name) ==
  /\ startswith(obj.name, name)
  /\ obj.type = "MESH"
  /\ obj.data.materials # <<>>

\* One pass of the loop body: the colour of the object's first material,
\* read and written back multiplied by the factor, alpha set to 1.0.
darken(mats, obj, damage) ==
  LET m == MatIndex(mats, obj.data.materials[1])
      color == mats[m].color
  IN  [mats EXCEPT ![m].color =
         Color(RatMul(color[1], factor(damage)),
               RatMul(color[2], factor(damage)),
               RatMul(color[3], factor(damage)),
               RatFrac(1, 1))]

\* The factor applied once, at the first tinted object only.
damage_loop_mut(objs, i, mats, name, damage) ==
  IF \E k \in i..Len(objs) : tinted(objs[k], name)
  THEN darken(mats, objs[CHOOSE k \in i..Len(objs) : tinted(objs[k], name)],
              damage)
  ELSE mats

\* for obj in bpy.data.objects: ... from the object at position i on
RECURSIVE damage_loop(_, _, _, _, _)
damage_loop(objs, i, mats, name, damage) ==
  IF i > Len(objs) THEN mats
  ELSE damage_loop(objs, i + 1,
                   IF tinted(objs[i], name)
                   THEN darken(mats, objs[i], damage) ELSE mats,
                   name, damage)

\* pose_mannequin on the scene sc = [objects, materials]; the result keeps
\* the writes made before an exception.
pose_mannequin(sc, name, fighter_data) ==
  LET limbs == fighter_data.limbs
      o1 == SetRot(sc.objects, Get(sc.objects, name), 1,
                   lean(fighter_data.balance))
      o2 == SetRot(o1, Get(o1, PartName(name, s_hips)), 2,
                   radians(fighter_data.biomech.hip_rot))
      o3 == SetRot(o2, Get(o2, PartName(name, s_torso)), 2,
                   radians(fighter_data.biomech.torso_rot))
      o4 == SetRot(o3, Get(o3, SideName(name, left, s_upper_arm)), 1,
                   arm_angle(limbs[1], 1))
      o5 == SetRot(o4, Get(o4, SideName(name, right, s_upper_arm)), 1,
                   arm_angle(limbs[2], 0 - 1))
  IN  IF Item(limbs, 0).err # ""
      THEN [err |-> Item(limbs, 0).err, objects |-> o3,
            materials |-> sc.materials]
      ELSE IF Item(limbs, 1).err # ""
      THEN [err |-> Item(limbs, 1).err, objects |-> o4,
            materials |-> sc.materials]
      ELSE [err |-> "", objects |-> o5,
            materials |-> damage_loop(o5, 1, sc.materials, name,
                                      fighter_data.damage)]

\* -------------------------------------------------------------- setup_scene
distance_map_mut(code) ==
  CASE code = <<"c">> -> 150
    [] code = <<"s">> -> 250
    [] code = <<"m">> -> 400
    [] code = <<"l">> -> 600
    [] code = <<"v">> -> 800
    [] OTHER -> 0

\* distance_map.get(state['distance'], 4), in hundredths
distance_map(code) ==
  CASE code = <<"c">> -> 150
    [] code = <<"s">> -> 250
    [] code = <<"m">> -> 400
    [] code = <<"l">> -> 600
    [] code = <<"v">> -> 800
    [] OTHER -> 400

\* fighter_a.location, fighter_b.location and the two facings
position_fighters(objs, dist) ==
  LET a == Get(objs, FighterA)
      b == Get(objs, FighterB)
  IN  [objs EXCEPT ![a].location = Vec(0 - (dist \div 2), 0, 0),
                   ![b].location = Vec(dist \div 2, 0, 0),
                   ![a].rotation_euler[3] = Deg(90),
                   ![b].rotation_euler[3] = Deg(0 - 90)]

\* The ground plane, the two lights and the camera.
GroundObj == Mesh(Ground, "plane", None, Vec(0, 0, 0), UnitScale,
                  GroundMaterial)

SunObj ==
  [Obj(Sun, "LIGHT", None, Vec(500, -500, 1000), UnitScale,
       [type |-> "SUN", energy |-> 3])
     EXCEPT !.rotation_euler = <<radians(45), Rad(0), radians(45)>>]

FillObj == Obj(Area, "LIGHT", None, Vec(-500, 500, 500), UnitScale,
               [type |-> "AREA", energy |-> 200, size |-> 500])

CameraObj ==
  [Obj(Camera, "CAMERA", None, Vec(0, -1000, 500), UnitScale,
       [kind |-> "PERSP"])
     EXCEPT !.rotation_euler = <<radians(60), Rad(0), Rad(0)>>]

\* ------------------------------------------------------------- render_scene
render_scene(sc, path) ==
  [sc EXCEPT !.engine = "CYCLES", !.samples = 128,
             !.resolution_x = 1920, !.resolution_y = 1080,
             !.filepath = path, !.rendered = Append(sc.rendered, path)]

\* ------------------------------------------------------------------ inputs
RECURSIVE Join(_, _)
Join(pieces, d) ==
  IF pieces = <<>> THEN <<>>
  ELSE IF Len(pieces) = 1 THEN pieces[1]
  ELSE pieces[1] \o <<d>> \o Join(Tail(pieces), d)

\* The first n of the fields, padded with fields "7" when n exceeds them.
Resize(fields, n) ==
  IF n <= Len(fields) THEN SubSeq(fields, 1, n)
  ELSE fields \o [i \in 1..(n - Len(fields)) |-> <<"7">>]

Slack == (0 - FieldSlack)..FieldSlack

IntTokens ==
  { <<"0">>, <<"5">>, <<"1", "0", "0">>, <<"1", "5", "0">>, <<"-", "5">>,
    <<"+", "7">>, <<" ", "9", "5">>, <<"9", "_", "5">>, <<"9", "a">>, <<>>,
    <<"-">>, <<"1", "_", "_", "0">> }

FlagTokens ==
  { <<"0">>, <<"1">>, <<"2">>, <<>>, <<"x">>, <<" ", "1">>, <<"0", "1">> }

StanceTokens == { <<"o">>, <<"s">>, <<>>, <<"9", "a">> }

DistTokens ==
  { <<"c">>, <<"s">>, <<"m">>, <<"l">>, <<"v">>, <<"x">>, <<>>,
    <<"m", "m">> }

TurnTokens == { <<"A">>, <<"B">>, <<"9", "a">> }

LimbChars == {"E", "B", "-"}

LimbStrings ==
  UNION {[1..k -> LimbChars] : k \in 0..MaxLimbs}
    \cup { <<"-", "-", "-", "-">>, <<"E", "B", "-", "-">>, <<"e", "b">> }

\* A fighter as its plain fields s = <<stance, balance, fatigue, damage,
\* limbs>>, its momentum and biomech tokens, and the number of '.'-fields
\* added (extra > 0) or dropped (extra < 0).
BaseA ==
  [s |-> << <<"o">>, <<"9", "5">>, <<"1", "5">>, <<"0">>,
            <<"-", "-", "-", "-">> >>,
   mom |-> << <<"3">>, <<"5">> >>,
   bio |-> << <<"1", "0">>, <<"1", "5">>, <<"5", "5">>, <<"0">>, <<"0">> >>,
   extra |-> 0]

BaseB ==
  [s |-> << <<"s">>, <<"9", "0">>, <<"2", "0">>, <<"5">>,
            <<"-", "-", "-", "-">> >>,
   mom |-> << <<"-", "1">>, <<"0">> >>,
   bio |-> << <<"-", "5">>, <<"-", "1", "0">>, <<"4", "5">>, <<"0">>,
              <<"0">> >>,
   extra |-> 0]

FighterText(f) ==
  Join(Resize(<<f.s[1], f.s[2], f.s[3], f.s[4], Join(f.mom, ","),
                Join(f.bio, ","), f.s[5]>>, 7 + f.extra), ".")

\* The fighters that differ from b in one place.
Variants(b) ==
  {b}
    \cup {[b EXCEPT !.s[1] = t] : t \in StanceTokens}
    \cup {[b EXCEPT !.s[i] = t] : i \in 2..4, t \in IntTokens}
    \cup {[b EXCEPT !.s[5] = t] : t \in LimbStrings}
    \cup {[b EXCEPT !.mom[i] = t] : i \in 1..2, t \in IntTokens}
    \cup {[b EXCEPT !.bio[i] = t] : i \in {1, 2, 3, 5}, t \in IntTokens}
    \cup {[b EXCEPT !.bio[4] = t] : t \in FlagTokens}
    \cup {[b EXCEPT !.mom = Resize(b.mom, 2 + k)] : k \in Slack}
    \cup {[b EXCEPT !.bio = Resize(b.bio, 5 + k)] : k \in Slack}
    \cup {[b EXCEPT !.extra = k] : k \in Slack}

\* The fighters that differ from b in damage and limbs together.
PoseVariants(b) ==
  {[b EXCEPT !.s[4] = d, !.s[5] = l] :
     d \in { <<"0">>, <<"5">>, <<"1", "0", "0">> },
     l \in { <<"E", "-">>, <<"-", "B">>, <<"-", "-", "-", "-">> }}

FpnText(fa, fb, dist, turn, mc, extra) ==
  Join(Resize(<<FighterText(fa), FighterText(fb), dist, turn, mc>>,
              5 + extra), "/")

Five == <<"5">>

FpnInputs ==
  {FpnText(fa, BaseB, <<"m">>, <<"A">>, Five, 0) : fa \in Variants(BaseA)}
    \cup {FpnText(BaseA, fb, <<"m">>, <<"A">>, Five, 0) :
            fb \in Variants(BaseB)}
    \cup {FpnText(fa, fb, <<"s">>, <<"B">>, Five, 0) :
            fa \in PoseVariants(BaseA), fb \in PoseVariants(BaseB)}
    \cup {FpnText(BaseA, BaseB, d, t, Five, 0) :
            d \in DistTokens, t \in TurnTokens}
    \cup {FpnText(BaseA, BaseB, <<"c">>, <<"A">>, mc, k) :
            mc \in IntTokens, k \in Slack}
    \cup {<<" ">> \o FpnText(BaseA, BaseB, <<"l">>, <<"A">>, Five, 0)
            \o <<" ">>}

blender == <<"b", "l", "e", "n", "d", "e", "r">>
dashes == <<"-", "-">>
out_png == <<"o", "u", "t", ".", "p", "n", "g">>

ArgvInputs ==
  {<<blender, dashes, f, out_png>> : f \in FpnInputs}
    \cup { <<blender, Five, out_png>>, <<blender, dashes>>,
           <<blender, dashes, FpnText(BaseA, BaseB, <<"m">>, <<"A">>,
                                      Five, 0)>> }

\* -------------------------------------------------------------------- main
Init ==
  /\ sys_argv \in ArgvInputs
  /\ pc = "main"
  /\ fpn_string = None
  /\ output_path = None
  /\ state = None
  /\ exc = ""
  /\ objects = DefaultObjects
  /\ materials = DefaultMaterials
  /\ scene = DefaultScene
  /\ calls = <<>>

\* list.index(x): the 0-based position of the first x, ValueError when absent
index(seq, x) ==
  IF \E i \in 1..Len(seq) : seq[i] = x
  THEN Return((CHOOSE i \in 1..Len(seq) :
                 seq[i] = x /\ \A j \in 1..(i - 1) : seq[j] # x) - 1)
  ELSE Raise("ValueError")

\* argv[argv.index("--") + 1:], then the two sys.exit(1) paths
GetArgs ==
  /\ pc = "main"
  /\ LET at == index(sys_argv, dashes)
         argv == SubSeq(sys_argv, at.val + 2, Len(sys_argv))
     IN  IF at.err # "" \/ Len(argv) < 2
         THEN /\ pc' = "exit1"
              /\ UNCHANGED <<fpn_string, output_path>>
         ELSE /\ pc' = "parse_fpn"
              /\ fpn_string' = argv[1]
              /\ output_path' = argv[2]
  /\ UNCHANGED <<sys_argv, state, exc, objects, materials, scene, calls>>

after_parse_mut(r) == "clear_scene"

\* Where main continues after parse_fpn: an exception is not caught.
after_parse(r) == IF r.err # "" THEN "raised" ELSE "clear_scene"

\* state = parse_fpn(fpn_string)
ParseFpn ==
  /\ pc = "parse_fpn"
  /\ LET r == parse_fpn(fpn_string)
     IN  /\ state' = r.val
         /\ exc' = r.err
         /\ pc' = after_parse(r)
  /\ calls' = Append(calls, "parse_fpn")
  /\ UNCHANGED <<sys_argv, fpn_string, output_path, objects, materials,
                 scene>>

\* setup_scene, first statement: clear_scene()
ClearScene ==
  /\ pc = "clear_scene"
  /\ objects' = clear_scene(objects)
  /\ scene' = [scene EXCEPT !.camera = None]
  /\ calls' = Append(Append(calls, "setup_scene"), "clear_scene")
  /\ pc' = "create"
  /\ UNCHANGED <<sys_argv, fpn_string, output_path, state, exc, materials>>

\* fighter_a = create_simple_mannequin("FighterA", red), then fighter_b
CreateMannequins ==
  /\ pc = "create"
  /\ LET a == create_simple_mannequin(
                [objects |-> objects, materials |-> materials],
                FighterA, Red)
         b == create_simple_mannequin(a, FighterB, Blue)
     IN  /\ objects' = b.objects
         /\ materials' = b.materials
  /\ calls' = Append(Append(calls, "create_simple_mannequin"),
                     "create_simple_mannequin")
  /\ pc' = "position"
  /\ UNCHANGED <<sys_argv, fpn_string, output_path, state, exc, scene>>

\* the location and rotation_euler[2] assignments
PositionFighters ==
  /\ pc = "position"
  /\ objects' = position_fighters(objects, distance_map(state.distance))
  /\ pc' = "pose_a"
  /\ UNCHANGED <<sys_argv, fpn_string, output_path, state, exc, materials,
                 scene, calls>>

Pose(at, name, fighter_data, next) ==
  /\ pc = at
  /\ LET r == pose_mannequin([objects |-> objects, materials |-> materials],
                             name, fighter_data)
     IN  /\ objects' = r.objects
         /\ materials' = r.materials
         /\ exc' = r.err
         /\ pc' = IF r.err # "" THEN "raised" ELSE next
  /\ calls' = Append(calls, "pose_mannequin")
  /\ UNCHANGED <<sys_argv, fpn_string, output_path, state, scene>>

\* pose_mannequin(fighter_a, state['fighter_a'])
PoseA == Pose("pose_a", FighterA, state.fighter_a, "pose_b")

\* pose_mannequin(fighter_b, state['fighter_b'])
PoseB == Pose("pose_b", FighterB, state.fighter_b, "decorate")

\* ground plane, lights, camera; setup_scene returns
Decorate ==
  /\ pc = "decorate"
  /\ objects' = objects \o <<GroundObj, SunObj, FillObj, CameraObj>>
  /\ materials' = Append(materials, [name |-> GroundMaterial, color |-> Grey])
  /\ scene' = [scene EXCEPT !.camera = Camera]
  /\ calls' = Append(calls, "setup_scene.return")
  /\ pc' = "render_scene"
  /\ UNCHANGED <<sys_argv, fpn_string, output_path, state, exc>>

\* render_scene(output_path)
RenderScene ==
  /\ pc = "render_scene"
  /\ scene' = render_scene(scene, output_path)
  /\ calls' = Append(calls, "render_scene")
  /\ pc' = "done"
  /\ UNCHANGED <<sys_argv, fpn_string, output_path, state, exc, objects,
                 materials>>

Next ==
  \/ GetArgs
  \/ ParseFpn
  \/ ClearScene
  \/ CreateMannequins
  \/ PositionFighters
  \/ PoseA
  \/ PoseB
  \/ Decorate
  \/ RenderScene

Spec == Init /\ [][Next]_vars

\* ================================================================== claims
Parsed == Len(calls) >= 1
Decoded == Parsed /\ state # None
Failed == Parsed /\ state = None

\* The number of pose_mannequin calls made so far.
Posed == Cardinality({i \in 1..Len(calls) : calls[i] = "pose_mannequin"})

Fighters == {"fighter_a", "fighter_b"}
FighterData(who) ==
  IF who = "fighter_a" THEN state.fighter_a ELSE state.fighter_b
FighterName(who) == IF who = "fighter_a" THEN FighterA ELSE FighterB
BaseColor(who) == IF who = "fighter_a" THEN Red ELSE Blue
\* pose_mannequin has been called for the fighter
PoseCalled(who) == Posed >= (IF who = "fighter_a" THEN 1 ELSE 2)
\* ... and has returned
PoseReturned(who) ==
  /\ PoseCalled(who)
  /\ ~(pc = "raised" /\ Posed = (IF who = "fighter_a" THEN 1 ELSE 2))

TopFields(s) == split(strip(s), "/")
FighterFields(s, k) == split(TopFields(s)[k], ".")

\* Some delimiter split of the input has the wrong number of fields.
WrongFieldCount(s) ==
  \/ Len(TopFields(s)) # 5
  \/ \E k \in 1..2 :
       \/ Len(FighterFields(s, k)) # 7
       \/ Len(split(FighterFields(s, k)[5], ",")) # 2
       \/ Len(split(FighterFields(s, k)[6], ",")) # 5

\* C1: parse_fpn rejects, returning no state, every input whose split has
\* the wrong field count at any of the four grammar levels (top level 5,
\* fighter 7, momentum 2, biomech 5).
C1_WrongCountRejected ==
  (Parsed /\ WrongFieldCount(fpn_string)) => (state = None /\ exc # "")

\* The object of that name.
Object(name) == objects[Get(objects, name)]
MaterialColor(name) ==
  materials[MatIndex(materials, PartName(name, s_material))].color

\* C2: pose_mannequin raises nothing on a limbs string of length 0 or 1
\* and leaves each arm whose index is missing at the relaxed angle.
C2_PoseTotalOnShortLimbs ==
  \A who \in Fighters :
    (Decoded /\ PoseCalled(who) /\ Len(FighterData(who).limbs) < 2) =>
      /\ PoseReturned(who)
      /\ Object(SideName(FighterName(who), right, s_upper_arm))
           .rotation_euler[2] = Deg(0 - 30)
      /\ Len(FighterData(who).limbs) < 1 =>
           Object(SideName(FighterName(who), left, s_upper_arm))
             .rotation_euler[2] = Deg(30)

\* C3: every state parse_fpn returns has balance, fatigue, damage and
\* biomech.weight of both fighters in [0.0, 1.0] and move_count and
\* biomech.frames non-negative.
C3_DecodedRanges ==
  Decoded =>
    /\ state.move_count >= 0
    /\ \A who \in Fighters :
         /\ FighterData(who).balance \in 0..100
         /\ FighterData(who).fatigue \in 0..100
         /\ FighterData(who).damage \in 0..100
         /\ FighterData(who).biomech.weight \in 0..100
         /\ FighterData(who).biomech.frames >= 0

\* An optionally signed string of base-10 digits, nothing else.
StrictInt(tok) ==
  LET body == IF tok # <<>> /\ Head(tok) \in {"+", "-"}
              THEN Tail(tok) ELSE tok
  IN  body # <<>> /\ \A i \in 1..Len(body) : body[i] \in Digits

\* The tokens of the fields declared as integers, for an input whose
\* field counts are right.
IntFields(s) ==
  {TopFields(s)[5]}
    \cup UNION {
      {FighterFields(s, k)[i] : i \in 2..4}
        \cup {split(FighterFields(s, k)[5], ",")[i] : i \in 1..2}
        \cup {split(FighterFields(s, k)[6], ",")[i] : i \in {1, 2, 3, 5}}
      : k \in 1..2}

\* C4: when a field declared as an integer is not an optionally signed
\* string of base-10 digits, parse_fpn fails and returns no state.
C4_StrictIntegers ==
  (/\ Parsed
   /\ ~WrongFieldCount(fpn_string)
   /\ \E tok \in IntFields(fpn_string) : ~StrictInt(tok))
    => (state = None /\ exc = "ValueError")

SceneCalls ==
  {"setup_scene", "clear_scene", "create_simple_mannequin", "pose_mannequin",
   "setup_scene.return", "render_scene"}

\* C5: decoding precedes every scene operation; after a decoding failure
\* main has stopped and no scene operation has happened; render_scene is
\* reached only after setup_scene has returned.
C5_DecodeBeforeScene ==
  /\ \A i \in 1..Len(calls) :
       /\ calls[i] \in SceneCalls => (i > 1 /\ calls[1] = "parse_fpn")
       /\ calls[i] = "render_scene" =>
            \E j \in 1..(i - 1) : calls[j] = "setup_scene.return"
  /\ Failed =>
       /\ pc = "raised" /\ exc # ""
       /\ calls = <<"parse_fpn">>
       /\ objects = DefaultObjects
       /\ materials = DefaultMaterials
       /\ scene = DefaultScene
  /\ pc \in {"render_scene", "done"} => (Decoded /\ exc = "")

C5_Witness == Failed /\ pc = "raised" /\ calls = <<"parse_fpn">>

\* The fighters have been positioned.
Positioned == Parsed /\ Get(objects, FighterB) # 0 /\ pc # "position"

\* The claimed separation, in hundredths, for a distance code.
ClaimedSeparation(code) ==
  IF code = <<"c">> THEN 150
  ELSE IF code = <<"s">> THEN 250
  ELSE IF code = <<"l">> THEN 600
  ELSE IF code = <<"v">> THEN 800
  ELSE 400

\* C6: the separation is the table value of the distance code, 4 for an
\* unrecognized code; fighter A stands at x = -d/2 and fighter B at
\* x = +d/2 on the same plane, A facing +90 degrees and B -90 degrees.
C6_Placement ==
  Positioned =>
    LET d == ClaimedSeparation(state.distance)
        a == Object(FighterA)
        b == Object(FighterB)
    IN  /\ 2 * a.location[1] = 0 - d
        /\ 2 * b.location[1] = d
        /\ b.location[1] - a.location[1] = d
        /\ a.location[2] = b.location[2] /\ a.location[3] = b.location[3]
        /\ a.rotation_euler[3] = Deg(90)
        /\ b.rotation_euler[3] = Deg(0 - 90)

C6_Witness ==
  /\ pc = "done"
  /\ state.distance = <<"x">>
  /\ Object(FighterA).location = Vec(0 - 200, 0, 0)
  /\ Object(FighterB).location = Vec(200, 0, 0)

\* The claimed angle of an upper arm for one limbs character.
ClaimedArm(c, sign) ==
  IF c = "E" \/ c = "B" THEN Deg(sign * 60) ELSE Deg(sign * 30)

\* C7: the left upper arm is at pi/3 when limbs[0] is 'E' or 'B' and at
\* pi/6 for any other character, the right upper arm at the opposite sign
\* by limbs[1]; nothing else of the fighter enters.
C7_ArmAngles ==
  \A who \in Fighters :
    (Decoded /\ PoseCalled(who)) =>
      LET limbs == FighterData(who).limbs
          name == FighterName(who)
      IN  /\ Len(limbs) >= 1 =>
               Object(SideName(name, left, s_upper_arm)).rotation_euler[2]
                 = ClaimedArm(limbs[1], 1)
          /\ Len(limbs) >= 2 =>
               Object(SideName(name, right, s_upper_arm)).rotation_euler[2]
                 = ClaimedArm(limbs[2], 0 - 1)

C7_Witness ==
  /\ pc = "done"
  /\ state.fighter_a.limbs = <<"-", "B">>
  /\ state.fighter_a.damage = 100
  /\ state.fighter_b.limbs = <<"E", "-">>
  /\ Object(SideName(FighterA, right, s_upper_arm)).rotation_euler[2]
       = Deg(0 - 60)
  /\ Object(SideName(FighterA, left, s_upper_arm)).rotation_euler[2]
       = Deg(30)
  /\ Object(SideName(FighterB, left, s_upper_arm)).rotation_euler[2]
       = Deg(60)

\* The fourth biomech token of fighter k, for an input that has one.
FlagToken(s, k) == split(FighterFields(s, k)[6], ",")[4]

HasFlag(s, k) ==
  /\ Len(TopFields(s)) >= k
  /\ Len(FighterFields(s, k)) >= 6
  /\ Len(split(FighterFields(s, k)[6], ",")) >= 4

\* The input with the flag token of fighter k replaced by "0".
FlagCleared(s, k) ==
  IF ~HasFlag(s, k) THEN s
  ELSE LET top == TopFields(s)
           f == FighterFields(s, k)
           bio == split(f[6], ",")
       IN  Join([top EXCEPT ![k] =
                   Join([f EXCEPT ![6] = Join([bio EXCEPT ![4] = <<"0">>],
                                              ",")], ".")], "/")

\* C8: recovering is true exactly when the fourth biomech token is "1";
\* no flag token makes decoding fail.
C8_RecoveringFlag ==
  Parsed =>
    /\ Decoded =>
         /\ state.fighter_a.biomech.recovering
              = (FlagToken(fpn_string, 1) = <<"1">>)
         /\ state.fighter_b.biomech.recovering
              = (FlagToken(fpn_string, 2) = <<"1">>)
    /\ Failed =>
         parse_fpn(FlagCleared(FlagCleared(fpn_string, 1), 2)).err # ""

C8_Witness ==
  /\ Decoded
  /\ FlagToken(fpn_string, 1) = <<"0", "1">>
  /\ ~state.fighter_a.biomech.recovering

\* r to the power k, k >= 1
RatPow(r, k) ==
  [sign |-> IF r.sign < 0 /\ k % 2 = 0 THEN 1 ELSE r.sign,
   exp |-> [p \in DOMAIN r.exp |-> k * r.exp[p]]]

\* The mesh parts of a fighter.
MeshParts(name) ==
  {i \in 1..Len(objects) :
     objects[i].type = "MESH" /\ startswith(objects[i].name, name)}

\* C9: the 15 mesh parts of a fighter share one material, and posing
\* leaves its colour at base * (1 - damage * 0.5)^15, alpha 1.0.
C9_DamageCompounds ==
  \A who \in Fighters :
    (Decoded /\ PoseReturned(who)) =>
      LET name == FighterName(who)
          f == RatFrac(200 - FighterData(who).damage, 200)
          base == BaseColor(who)
      IN  /\ Cardinality(MeshParts(name)) = 15
          /\ \A i \in MeshParts(name) :
               objects[i].data.materials = <<PartName(name, s_material)>>
          /\ MaterialColor(name) =
               Color(RatMul(base[1], RatPow(f, 15)),
                     RatMul(base[2], RatPow(f, 15)),
                     RatMul(base[3], RatPow(f, 15)),
                     RatFrac(1, 1))

C9_Witness ==
  /\ pc = "done"
  /\ state.fighter_b.damage = 5
  /\ MaterialColor(FighterB)[3] = RatPow(RatFrac(39, 40), 15)
  /\ MaterialColor(FighterB)[3] # RatFrac(39, 40)
  /\ state.fighter_a.damage = 0
  /\ MaterialColor(FighterA) = Red

\* What a fighter owns: its root, its parts and its material's colour.
Owned(objs, mats, name) ==
  [objs |-> SelectSeq(objs, LAMBDA o : startswith(o.name, name)),
   color |-> mats[MatIndex(mats, PartName(name, s_material))].color]

\* The fighter posed alone in an empty scene, at the given root placement.
Alone(who, root) ==
  LET name == FighterName(who)
      made == create_simple_mannequin([objects |-> <<>>, materials |-> <<>>],
                                      name, BaseColor(who))
      placed == [made EXCEPT
                   !.objects[1].location = root.location,
                   !.objects[1].rotation_euler[3] = root.rotation_euler[3]]
      r == pose_mannequin(placed, name, FighterData(who))
  IN  Owned(r.objects, r.materials, name)

\* C10: posing one fighter changes nothing the other fighter owns, and
\* each posed fighter is what posing it alone, from its own decoded state,
\* gives.
C10_PoseFrame ==
  /\ [][/\ pc = "pose_a" =>
             Owned(objects, materials, FighterB)'
               = Owned(objects, materials, FighterB)
        /\ pc = "pose_b" =>
             Owned(objects, materials, FighterA)'
               = Owned(objects, materials, FighterA)]_vars
  /\ [](\A who \in Fighters :
          (Decoded /\ PoseCalled(who) /\ pc # "pose_a") =>
            Owned(objects, materials, FighterName(who))
              = Alone(who, Object(FighterName(who))))

C10_Witness ==
  /\ pc = "decorate"
  /\ state.fighter_a.damage = 100
  /\ state.fighter_b.damage = 5
  /\ state.fighter_a.limbs = <<"E", "-">>
  /\ state.fighter_b.limbs = <<"-", "B">>
  /\ MaterialColor(FighterA)[1] = RatPow(RatFrac(1, 2), 15)
  /\ MaterialColor(FighterB)[3] = RatPow(RatFrac(39, 40), 15)

====
